---- MODULE Spec2Model ----
(***************************************************************************)
(* Model of topic-mediactl.c: discovery of the video graph from the        *)
(* firmware description, binding of the asynchronously arriving subdevs,   *)
(* link creation on completion, and the power/stream activation of the     *)
(* entities, by one caller, by two callers at the same time, and with two  *)
(* platform devices sharing the global g_xdev.                             *)
(***************************************************************************)
EXTENDS Integers, Sequences, FiniteSets, TLC

(* ------------------------------------------------------------------ *)
(* Bounds of the model                                                  *)
(* ------------------------------------------------------------------ *)
\* number of entities in the registry when single entities are started and stopped
NumAct == 2
\* number of entities in the registry when the whole graph is started
NumStream == 3
\* largest byte count a write to the stream_start attribute carries
MaxWrite == 2
\* number of peer nodes the firmware description can hold besides the root
NumPeers == 2
\* number of endpoints the firmware description holds in all, when discovery is checked
MaxEndpoints == 3
\* number of endpoints the firmware description holds in all, when binding is checked
MaxBindEps == 2
\* number of endpoints the peer nodes hold in all, when link creation is checked
MaxLinkEps == 2
\* number of endpoints of the entity xvip_graph_build_one is called for on its own
MaxSkipEps == 3

(* ------------------------------------------------------------------ *)
(* Error numbers used by the driver                                     *)
(* ------------------------------------------------------------------ *)
EINVAL == 22
ENOIOCTLCMD == 515
ENODEV == 19
ENOMEM == 12
EEXIST == 17
ENOLINK == 67

\* of_fwnode_handle(xdev->dev->of_node): the node of the composite device
Root == 0
\* a NULL fwnode_handle
NullFw == -1

\* results a remote command (v4l2_subdev_call) can give: success, the
\* "not implemented by this subdev" outcome, and a hard error
Rets == {0, -ENOIOCTLCMD, -EINVAL}

\* the remote commands
Cmds == {"power_on", "frame_interval", "stream_on", "stream_off", "power_off"}

\* the commands a start can issue, and those a stop can issue
OnCmds == {"power_on", "frame_interval", "stream_on", "power_off"}
OffCmds == {"stream_off", "power_off"}

\* what the subdev answers to each command during one call
Oracles(on) == IF on THEN [OnCmds -> Rets] ELSE [OffCmds -> Rets]

\* one issued command with its result
Issue(c, r) == [cmd |-> c, ret |-> r]

VARIABLES
  asd_list,      \* g_xdev->notifier.asd_list: sequence of xvip_graph_entity
  is_streaming,  \* g_xdev->is_streaming
  power,         \* per fwnode: argument of the last s_power the subdev did not refuse
  stream,        \* per fwnode: argument of the last s_stream the subdev did not refuse
  call,          \* the last completed xvip_entity_start_stop call
  ss_pos,        \* position of xvip_start_stream in the list (0: not running)
  ss_fail,       \* first entity whose start failed in the current request (0: none)
  ss_err,        \* the error xvip_entity_start_stop returned for ss_fail
  store_ret,     \* value returned by the last xvip_start_stream_store (0: none yet)
  topo,          \* the firmware description: per fwnode, its endpoints in order
  probed,        \* media_ctl_probe has run
  probe_ret,     \* what media_ctl_probe returned
  report,        \* what xvip_graph_init logged with dev_err
  bind,          \* the last completed xvip_graph_notify_bound call
  links,         \* the links media_create_pad_link created, in order
  indication,    \* static int indication
  comp,          \* the last xvip_graph_notify_complete call
  subdev_nodes,  \* v4l2_device_register_subdev_nodes has been called
  media_registered,  \* media_device_register succeeded
  oopsed,        \* a callback dereferenced a NULL pointer
  conc,          \* the xvip_start_stream calls that run at the same time
  inst,          \* two platform devices of the driver and the global g_xdev
  walk,          \* xvip_graph_parse on its way through the list
  built          \* the last xvip_graph_build_one call made on its own

actVars == <<is_streaming, power, stream, call, ss_pos, ss_fail, ss_err, store_ret,
             conc>>
probeVars == <<topo, probed, probe_ret, report, inst, walk>>
bindVars == <<bind, links, indication, comp, subdev_nodes,
              media_registered, oopsed, built>>
vars == <<asd_list, actVars, probeVars, bindVars>>

(* ------------------------------------------------------------------ *)
(* struct xvip_graph_entity                                             *)
(* ------------------------------------------------------------------ *)
\* a v4l2_subdev: the node it sits at and its name; no subdev is NULL
SubdevNames == {"IMX274", "OTHER"}
Subdev(fw, nm) == [fwnode |-> fw, name |-> nm]
NoSubdev == Subdev(NullFw, "none")

\* the media_entity embedded in a subdev; its name starts as the subdev's
EntityOf(sd) == [owner |-> sd, name |-> sd.name]
NoEntity == EntityOf(NoSubdev)

\* the entry v4l2_async_notifier_add_fwnode_subdev allocates, zeroed
NewEntity(fw) ==
  [fwnode |-> fw, entity |-> NoEntity, subdev |-> NoSubdev, streaming |-> FALSE]

\* a bound entity of the registry, as the activation code meets it
BoundEntity(fw, nm) ==
  [NewEntity(fw) EXCEPT !.entity = EntityOf(Subdev(fw, nm)),
                        !.subdev = Subdev(fw, nm)]

(* ------------------------------------------------------------------ *)
(* Activation: xvip_entity_start_stop                                   *)
(* ------------------------------------------------------------------ *)
\* entity->streaming = enable; the previous value is returned
xvip_graph_entity_set_streaming(entity, enable) ==
  [status |-> entity.streaming,
   entity |-> [entity EXCEPT !.streaming = enable]]

\* ret < 0 && ret != -ENOIOCTLCMD
HardError(ret) == ret < 0 /\ ret # -ENOIOCTLCMD

\* strcmp(subdev->name, "IMX274") == 0
IsIMX274(subdev) == subdev.name = "IMX274"

\* the start branch taken without looking at the previous status
StartBranchUnconditional(on, was_streaming) == on

\* if (on && !is_streaming)
StartBranch(on, was_streaming) == on /\ ~was_streaming

\* else if (!on && is_streaming)
StopBranch(on, was_streaming) == ~on /\ was_streaming

\* s_power(1) failed: the flag is cleared and the error returned
PowerOnFailed(entity, r_pon) ==
  [entity |-> xvip_graph_entity_set_streaming(entity, FALSE).entity,
   ret    |-> r_pon,
   cmds   |-> <<Issue("power_on", r_pon)>>]

\* the frame-interval failure handled like a failed s_stream(1), with s_power(0)
FrameIntervalFailedPowerOff(entity, issued, r_fi) ==
  [entity |-> [entity EXCEPT !.streaming = FALSE],
   ret    |-> r_fi,
   cmds   |-> issued \o <<Issue("frame_interval", r_fi), Issue("power_off", 0)>>]

\* s_frame_interval failed (any negative result): the flag is cleared and
\* the error returned; no s_power(0) is issued
FrameIntervalFailed(entity, issued, r_fi) ==
  [entity |-> xvip_graph_entity_set_streaming(entity, FALSE).entity,
   ret    |-> r_fi,
   cmds   |-> Append(issued, Issue("frame_interval", r_fi))]

\* the rollback with ret overwritten by the s_power(0) result
StreamOnFailedRetPowerOff(entity, issued, r_son, r_poff) ==
  [entity |-> [entity EXCEPT !.streaming = FALSE],
   ret    |-> r_poff,
   cmds   |-> issued \o <<Issue("stream_on", r_son), Issue("power_off", r_poff)>>]

\* s_stream(1) failed: s_power(0) is issued, its result dropped, the flag
\* cleared; ret keeps the s_stream result
StreamOnFailed(entity, issued, r_son, r_poff) ==
  [entity |-> xvip_graph_entity_set_streaming(entity, FALSE).entity,
   ret    |-> r_son,
   cmds   |-> issued \o <<Issue("stream_on", r_son), Issue("power_off", r_poff)>>]

\* s_stream(1), after the power and frame-interval steps went through
StreamOn(entity, issued, o) ==
  LET r_son == o["stream_on"] IN
  IF HardError(r_son)
  THEN StreamOnFailed(entity, issued, r_son, o["power_off"])
  ELSE [entity |-> entity,
        ret    |-> r_son,
        cmds   |-> Append(issued, Issue("stream_on", r_son))]

\* the body of if (on && !is_streaming)
EntityStart(entity, o) ==
  LET r_pon == o["power_on"]
      r_fi  == o["frame_interval"]
      pon   == <<Issue("power_on", r_pon)>>
  IN  IF HardError(r_pon)
      THEN PowerOnFailed(entity, r_pon)
      ELSE IF IsIMX274(entity.subdev)
           THEN IF r_fi < 0
                THEN FrameIntervalFailed(entity, pon, r_fi)
                ELSE StreamOn(entity, Append(pon, Issue("frame_interval", r_fi)), o)
           ELSE StreamOn(entity, pon, o)

\* s_stream(0) failed: the flag is set back to streaming; execution goes on
StreamOffFailed(entity) ==
  xvip_graph_entity_set_streaming(entity, TRUE).entity

\* the body of else if (!on && is_streaming): s_stream(0), then s_power(0)
\* whatever s_stream(0) gave; ret is the s_power(0) result
EntityStop(entity, o) ==
  LET r_soff == o["stream_off"]
      r_poff == o["power_off"]
  IN  [entity |-> IF HardError(r_soff) THEN StreamOffFailed(entity) ELSE entity,
       ret    |-> r_poff,
       cmds   |-> <<Issue("stream_off", r_soff), Issue("power_off", r_poff)>>]

\* xvip_entity_start_stop(xdev, entity, on) against a subdev answering o
xvip_entity_start_stop(entity, on, o) ==
  LET s == xvip_graph_entity_set_streaming(entity, on) IN
  IF StartBranch(on, s.status) THEN EntityStart(s.entity, o)
  ELSE IF StopBranch(on, s.status) THEN EntityStop(s.entity, o)
  ELSE [entity |-> s.entity, ret |-> 0, cmds |-> <<>>]

(* ------------------------------------------------------------------ *)
(* The subdev side of a command                                         *)
(* ------------------------------------------------------------------ *)
\* a command the subdev did not refuse with a hard error takes effect
PowerAfter(p, cmds) ==
  LET Last(i) == \A j \in (i+1)..Len(cmds) :
                    ~(cmds[j].cmd \in {"power_on", "power_off"} /\ ~HardError(cmds[j].ret))
      hit == {i \in 1..Len(cmds) :
                cmds[i].cmd \in {"power_on", "power_off"} /\ ~HardError(cmds[i].ret) /\ Last(i)}
  IN  IF hit = {} THEN p ELSE (cmds[CHOOSE i \in hit : TRUE].cmd = "power_on")

StreamAfter(s, cmds) ==
  LET Last(i) == \A j \in (i+1)..Len(cmds) :
                    ~(cmds[j].cmd \in {"stream_on", "stream_off"} /\ ~HardError(cmds[j].ret))
      hit == {i \in 1..Len(cmds) :
                cmds[i].cmd \in {"stream_on", "stream_off"} /\ ~HardError(cmds[i].ret) /\ Last(i)}
  IN  IF hit = {} THEN s ELSE (cmds[CHOOSE i \in hit : TRUE].cmd = "stream_on")

\* the record kept of a completed xvip_entity_start_stop call
NoCall == [node |-> 0, on |-> FALSE, was |-> FALSE, ret |-> 0, cmds |-> <<>>]

\* the ways one call on the entity can go, over all answers of the subdev
Outcomes(entity, on) ==
  {xvip_entity_start_stop(entity, on, o) : o \in Oracles(on)}

\* one call of xvip_entity_start_stop on the entity at position n, going as res
DoStartStop(n, on, res) ==
  LET fw  == asd_list[n].fwnode
  IN  /\ asd_list' = [asd_list EXCEPT ![n] = res.entity]
      /\ power'  = [power  EXCEPT ![fw] = PowerAfter(@, res.cmds)]
      /\ stream' = [stream EXCEPT ![fw] = StreamAfter(@, res.cmds)]
      /\ call' = [node |-> n, on |-> on, was |-> asd_list[n].streaming,
                  ret |-> res.ret, cmds |-> res.cmds]

\* xvip_entity_start_stop called on one entity outside a whole-graph request
StartStopCall(n, on) ==
  /\ ss_pos = 0
  /\ n \in 1..Len(asd_list)
  /\ \E res \in Outcomes(asd_list[n], on) : DoStartStop(n, on, res)
  /\ UNCHANGED <<is_streaming, ss_pos, ss_fail, ss_err, store_ret, conc,
                 probeVars, bindVars>>

(* ------------------------------------------------------------------ *)
(* Whole-graph activate: xvip_start_stream_store / xvip_start_stream    *)
(* ------------------------------------------------------------------ *)
\* a write to stream_start enters xvip_start_stream
StartStreamEnter ==
  /\ ss_pos = 0
  /\ ss_pos' = 1
  /\ ss_fail' = 0
  /\ ss_err' = 0
  /\ store_ret' = 0
  /\ UNCHANGED <<asd_list, is_streaming, power, stream, call, conc,
                 probeVars, bindVars>>

\* one iteration of list_for_each_entry: the return value of
\* xvip_entity_start_stop is not looked at, the loop goes on
StartStreamNode ==
  /\ ss_pos \in 1..Len(asd_list)
  /\ \E res \in Outcomes(asd_list[ss_pos], TRUE) :
        /\ DoStartStop(ss_pos, TRUE, res)
        /\ IF ss_fail = 0 /\ HardError(res.ret)
           THEN ss_fail' = ss_pos /\ ss_err' = res.ret
           ELSE UNCHANGED <<ss_fail, ss_err>>
  /\ ss_pos' = ss_pos + 1
  /\ UNCHANGED <<is_streaming, store_ret, conc, probeVars, bindVars>>

\* after the loop: g_xdev->is_streaming = true; the store returns count
StartStreamDone ==
  /\ ss_pos = Len(asd_list) + 1
  /\ is_streaming' = TRUE
  /\ \E count \in 1..MaxWrite : store_ret' = count
  /\ ss_pos' = 0
  /\ UNCHANGED <<asd_list, power, stream, call, ss_fail, ss_err, conc,
                 probeVars, bindVars>>

\* the platform devices the driver is probed for
Devs == {"A", "B"}

\* a device media_ctl_probe has not run for
NoDev == [probed |-> FALSE, ok |-> FALSE, asd_list |-> <<>>,
          is_streaming |-> FALSE, links |-> <<>>, media_registered |-> FALSE]

\* no device probed: g_xdev is NULL; last is the device the last call was
\* made for, oops records a NULL pointer dereference
NoInst == [g_xdev |-> "NULL", dev |-> [d \in Devs |-> NoDev],
           last |-> "none", oops |-> FALSE]

\* xvip_graph_parse not entered: pc is the step it is to take, pos the
\* entity list_for_each_entry is at, ret its variable ret, steps the number
\* of steps taken
NoWalk == [pc |-> "start", pos |-> 0, ret |-> 0, steps |-> 0]

\* the callers of xvip_start_stream_store that can run at the same time
Threads == {"T1", "T2"}

\* a caller that has not entered: pc is the step it is to take, pos the
\* entity its loop is at, status the local is_streaming of
\* xvip_entity_start_stop
NoThread == [pc |-> "enter", pos |-> 0, status |-> FALSE]

\* no caller has entered; pon and son count the s_power(1) and s_stream(1)
\* commands each subdev received, hard records that a command failed, early
\* that a caller found an entity's flag set while its subdev was not started
NoConc(n) ==
  [thr |-> [t \in Threads |-> NoThread],
   pon |-> [f \in 1..n |-> 0],
   son |-> [f \in 1..n |-> 0],
   hard |-> FALSE,
   early |-> FALSE]

\* nothing bound, nothing completed
NoBind == [sd |-> NoSubdev, ret |-> 0, dup |-> FALSE, order |-> <<>>]
NoComp == [called |-> FALSE, ret |-> 0, first_unbound |-> 0, links_before |-> 0,
           steps |-> <<>>]

\* xvip_graph_build_one not called on its own: at is the position of the
\* endpoint left out in the second call, full and cut what the call gave
\* for the endpoints as they are and with that endpoint left out
NoBuilt == [called |-> FALSE, at |-> 0,
            full |-> [ret |-> 0, links |-> <<>>],
            cut |-> [ret |-> 0, links |-> <<>>]]

InitBindVars ==
  /\ bind = NoBind
  /\ links = <<>>
  /\ indication = 0
  /\ comp = NoComp
  /\ subdev_nodes = FALSE
  /\ media_registered = FALSE
  /\ oopsed = FALSE
  /\ built = NoBuilt

\* a registry of n bound entities, none streaming, nothing requested yet
InitBound(n) ==
  /\ \E nm \in [1..n -> SubdevNames] :
        asd_list = [i \in 1..n |-> BoundEntity(i, nm[i])]
  /\ is_streaming = FALSE
  /\ power = [i \in 1..n |-> FALSE]
  /\ stream = [i \in 1..n |-> FALSE]
  /\ call = NoCall
  /\ ss_pos = 0
  /\ ss_fail = 0
  /\ ss_err = 0
  /\ store_ret = 0
  /\ conc = NoConc(n)
  /\ topo = [f \in 0..n |-> <<>>]
  /\ probed = TRUE
  /\ probe_ret = 0
  /\ report = "none"
  /\ inst = NoInst
  /\ walk = NoWalk
  /\ InitBindVars

(* Single entities started and stopped in any order *)
InitAct == InitBound(NumAct)

NextAct ==
  \/ \E n \in 1..NumAct : StartStopCall(n, TRUE)
  \/ \E n \in 1..NumAct : StartStopCall(n, FALSE)

SpecAct == InitAct /\ [][NextAct]_vars

(* Requests to start the whole graph, one after the other *)
InitStream == InitBound(NumStream)

NextStream ==
  \/ StartStreamEnter
  \/ StartStreamNode
  \/ StartStreamDone

SpecStream == InitStream /\ [][NextStream]_vars

(* ------------------------------------------------------------------ *)
(* xvip_start_stream called by several writers at the same time: the    *)
(* code takes no lock, so the calls interleave at every read and write  *)
(* of entity->streaming and at every v4l2_subdev_call                    *)
(* ------------------------------------------------------------------ *)
Thr(t) == conc.thr[t]
ThrEntity(t) == asd_list[Thr(t).pos]
ThrFw(t) == ThrEntity(t).fwnode

\* the caller's loop moves to the next entity, or past the last one
AfterEntity(th) ==
  IF th.pos < Len(asd_list)
  THEN [th EXCEPT !.pc = "read", !.pos = @ + 1]
  ELSE [th EXCEPT !.pc = "flag"]

raceRest == <<call, ss_pos, ss_fail, ss_err, store_ret, probeVars, bindVars>>

\* xvip_start_stream_store calls xvip_start_stream: list_for_each_entry begins
RaceEnter(t) ==
  /\ Thr(t).pc = "enter"
  /\ conc' = [conc EXCEPT !.thr[t] = AfterEntity(Thr(t))]
  /\ UNCHANGED <<asd_list, is_streaming, power, stream, raceRest>>

\* xvip_graph_entity_set_streaming: bool status = entity->streaming
RaceReadFlag(t) ==
  /\ Thr(t).pc = "read"
  /\ LET status == xvip_graph_entity_set_streaming(ThrEntity(t), TRUE).status
     IN  conc' = [conc EXCEPT
                    !.thr[t] = [@ EXCEPT !.pc = "write", !.status = status],
                    !.early = @ \/ (status /\ ~(power[ThrFw(t)] /\ stream[ThrFw(t)]))]
  /\ UNCHANGED <<asd_list, is_streaming, power, stream, raceRest>>

\* xvip_graph_entity_set_streaming: entity->streaming = enable; then the
\* test if (on && !is_streaming)
RaceWriteFlag(t) ==
  /\ Thr(t).pc = "write"
  /\ asd_list' = [asd_list EXCEPT ![Thr(t).pos] =
                     xvip_graph_entity_set_streaming(@, TRUE).entity]
  /\ conc' = [conc EXCEPT !.thr[t] =
                 IF StartBranch(TRUE, Thr(t).status)
                 THEN [@ EXCEPT !.pc = "power_on"]
                 ELSE AfterEntity(@)]
  /\ UNCHANGED <<is_streaming, power, stream, raceRest>>

\* ret = v4l2_subdev_call(subdev, core, s_power, 1)
RacePowerOn(t) ==
  /\ Thr(t).pc = "power_on"
  /\ \E r \in Rets :
        /\ power' = [power EXCEPT ![ThrFw(t)] = PowerAfter(@, <<Issue("power_on", r)>>)]
        /\ conc' = [conc EXCEPT
                       !.pon[ThrFw(t)] = @ + 1,
                       !.hard = @ \/ HardError(r),
                       !.thr[t].pc = IF HardError(r) THEN "clear"
                                     ELSE IF IsIMX274(ThrEntity(t).subdev)
                                          THEN "frame_interval"
                                          ELSE "stream_on"]
  /\ UNCHANGED <<asd_list, is_streaming, stream, raceRest>>

\* ret = v4l2_subdev_call(subdev, video, s_frame_interval, &ival)
RaceFrameInterval(t) ==
  /\ Thr(t).pc = "frame_interval"
  /\ \E r \in Rets :
        conc' = [conc EXCEPT
                   !.hard = @ \/ (r < 0),
                   !.thr[t].pc = IF r < 0 THEN "clear" ELSE "stream_on"]
  /\ UNCHANGED <<asd_list, is_streaming, power, stream, raceRest>>

\* ret = v4l2_subdev_call(subdev, video, s_stream, 1)
RaceStreamOn(t) ==
  /\ Thr(t).pc = "stream_on"
  /\ \E r \in Rets :
        /\ stream' = [stream EXCEPT ![ThrFw(t)] = StreamAfter(@, <<Issue("stream_on", r)>>)]
        /\ conc' = [conc EXCEPT
                       !.son[ThrFw(t)] = @ + 1,
                       !.hard = @ \/ HardError(r),
                       !.thr[t] = IF HardError(r) THEN [@ EXCEPT !.pc = "power_off"]
                                  ELSE AfterEntity(@)]
  /\ UNCHANGED <<asd_list, is_streaming, power, raceRest>>

\* v4l2_subdev_call(subdev, core, s_power, 0) after a failed s_stream(1)
RacePowerOff(t) ==
  /\ Thr(t).pc = "power_off"
  /\ \E r \in Rets :
        power' = [power EXCEPT ![ThrFw(t)] = PowerAfter(@, <<Issue("power_off", r)>>)]
  /\ conc' = [conc EXCEPT !.thr[t].pc = "clear"]
  /\ UNCHANGED <<asd_list, is_streaming, stream, raceRest>>

\* xvip_graph_entity_set_streaming(xdev, entity, 0) on the error paths
RaceClearFlag(t) ==
  /\ Thr(t).pc = "clear"
  /\ asd_list' = [asd_list EXCEPT ![Thr(t).pos] =
                     xvip_graph_entity_set_streaming(@, FALSE).entity]
  /\ conc' = [conc EXCEPT !.thr[t] = AfterEntity(@)]
  /\ UNCHANGED <<is_streaming, power, stream, raceRest>>

\* g_xdev->is_streaming = true; the store returns
RaceSetDeviceFlag(t) ==
  /\ Thr(t).pc = "flag"
  /\ is_streaming' = TRUE
  /\ conc' = [conc EXCEPT !.thr[t].pc = "done"]
  /\ UNCHANGED <<asd_list, power, stream, raceRest>>

InitRace == InitBound(NumAct)

NextRace ==
  \E t \in Threads :
     \/ RaceEnter(t)
     \/ RaceReadFlag(t)
     \/ RaceWriteFlag(t)
     \/ RacePowerOn(t)
     \/ RaceFrameInterval(t)
     \/ RaceStreamOn(t)
     \/ RacePowerOff(t)
     \/ RaceClearFlag(t)
     \/ RaceSetDeviceFlag(t)

SpecRace == InitRace /\ [][NextRace]_vars

(* ------------------------------------------------------------------ *)
(* Properties of the activation code                                    *)
(* ------------------------------------------------------------------ *)
\* the last call was made, and on which entity
Called == call.node # 0
CallEntity == asd_list[call.node]
CmdsNamed(names) == {i \in 1..Len(call.cmds) : call.cmds[i].cmd \in names}
NoHardErrorIssued == \A i \in 1..Len(call.cmds) : ~HardError(call.cmds[i].ret)

\* C1: a whole-graph start stops at the first entity whose start fails: no
\* command reaches an entity after it, and the request reports its error.
C1_StopsAtFirstFailure ==
  /\ (ss_fail # 0 /\ Called /\ call.node > ss_fail) => call.cmds = <<>>
  /\ (ss_fail # 0 /\ ss_pos = 0 /\ store_ret # 0) => store_ret = ss_err

\* C2: a start of an entity that is streaming, and a stop of one that is
\* idle, return 0, issue no command and leave the state as it was.
C2_Idempotent ==
  (Called /\ call.on = call.was) =>
     /\ call.ret = 0
     /\ call.cmds = <<>>
     /\ CallEntity.streaming = call.was

\* a start of a streaming entity and, before it, commands to that entity
C2_Witness ==
  /\ Called /\ call.on /\ call.was
  /\ power[CallEntity.fwnode] /\ stream[CallEntity.fwnode]

\* the start went: power-on accepted, no frame interval, stream-on refused
StreamOnRefused ==
  /\ Called /\ call.on /\ ~call.was
  /\ ~IsIMX274(CallEntity.subdev)
  /\ Len(call.cmds) >= 2
  /\ call.cmds[1].cmd = "power_on" /\ ~HardError(call.cmds[1].ret)
  /\ call.cmds[2].cmd = "stream_on" /\ HardError(call.cmds[2].ret)

\* C3: when stream-on fails after power-on, exactly one power-off is issued,
\* the entity is idle and the stream-on error is what the call returns.
C3_Rollback ==
  StreamOnRefused =>
     /\ Cardinality(CmdsNamed({"power_off"})) = 1
     /\ ~CallEntity.streaming
     /\ call.ret = call.cmds[2].ret

\* a rollback whose power-off gave another result than the stream-on
C3_Witness ==
  /\ StreamOnRefused
  /\ Len(call.cmds) = 3
  /\ call.cmds[3].ret # call.cmds[2].ret

\* C4: an entity's streaming flag is set exactly when the entity holds its
\* power and its stream.
C4_FlagMatchesResources ==
  ss_pos = 0 =>
    \A n \in 1..Len(asd_list) :
       asd_list[n].streaming <=> (power[asd_list[n].fwnode] /\ stream[asd_list[n].fwnode])

\* the stop went: stream-off refused
StreamOffRefused ==
  /\ Called /\ ~call.on /\ call.was
  /\ Len(call.cmds) >= 1
  /\ call.cmds[1].cmd = "stream_off" /\ HardError(call.cmds[1].ret)

\* C5: when stream-off fails the entity stays streaming, no power-off is
\* issued and the stream-off error is what the call returns.
C5_StopKeepsPower ==
  StreamOffRefused =>
     /\ CallEntity.streaming
     /\ CmdsNamed({"power_off"}) = {}
     /\ call.ret = call.cmds[1].ret

\* every command of the call was accepted or not implemented, a frame
\* interval command accepted
OnlySoftOutcomes ==
  /\ Called /\ call.on # call.was
  /\ NoHardErrorIssued
  /\ \A i \in CmdsNamed({"frame_interval"}) : call.cmds[i].ret = 0

\* C6: a call whose power and stream commands are accepted or not
\* implemented returns success and reaches the state asked for.
C6_NotImplementedIsSuccess ==
  OnlySoftOutcomes =>
     /\ call.ret >= 0
     /\ CallEntity.streaming = call.on

(* ------------------------------------------------------------------ *)
(* The firmware description                                             *)
(* ------------------------------------------------------------------ *)
Fwnodes == 0..NumPeers

\* one endpoint: the remote port parent it resolves to (NullFw: none),
\* the ports of its link, and whether v4l2_fwnode_parse_link parses it
Endpoint(remote, lp, rp, ok) ==
  [remote |-> remote, local_port |-> lp, remote_port |-> rp, link_ok |-> ok]

\* the endpoints of all nodes in one sequence, node after node
RECURSIVE FlatSeqs(_, _, _)
FlatSeqs(alphabet, k, lo) ==
  IF k = 0 THEN {<<>>}
  ELSE {<<>>} \cup
       UNION {{<<e>> \o r : r \in FlatSeqs(alphabet, k - 1, e.owner)} :
                 e \in {x \in alphabet : x.owner >= lo}}

TopoOf(flat) ==
  [n \in Fwnodes |->
     LET own == SelectSeq(flat, LAMBDA e : e.owner = n)
     IN  [i \in 1..Len(own) |-> own[i].ep]]

(* ------------------------------------------------------------------ *)
(* Graph Management: discovery                                          *)
(* ------------------------------------------------------------------ *)
\* xvip_graph_find_entity: position of the entity at fwnode, 0 for NULL
xvip_graph_find_entity(list, fwnode) ==
  LET hit == {i \in 1..Len(list) : list[i].fwnode = fwnode}
  IN  IF hit = {} THEN 0 ELSE CHOOSE i \in hit : \A j \in hit : i <= j

\* the addition that puts two entries for the fwnode at the end of the list
AddFwnodeSubdevTwice(list, fwnode) ==
  [list |-> list \o <<NewEntity(fwnode), NewEntity(fwnode)>>, err |-> 0]

\* v4l2_async_notifier_add_fwnode_subdev: a zeroed entry at the end of the
\* list; a fwnode the notifier already holds is refused
AddFwnodeSubdev(list, fwnode) ==
  IF \E i \in 1..Len(list) : list[i].fwnode = fwnode
  THEN [list |-> list, err |-> -EEXIST]
  ELSE [list |-> Append(list, NewEntity(fwnode)), err |-> 0]

\* v4l2_async_notifier_cleanup: every entry of the list is released
NotifierCleanup(list) == <<>>

\* the skip test without the comparison with the composite node
AlreadyProcessedNoRoot(list, remote) ==
  xvip_graph_find_entity(list, remote) # 0

\* remote == of_fwnode_handle(xdev->dev->of_node) || xvip_graph_find_entity(xdev, remote)
AlreadyProcessed(list, remote) ==
  remote = Root \/ xvip_graph_find_entity(list, remote) # 0

\* the while (1) loop of xvip_graph_parse_one, from endpoint i on
RECURSIVE ParseEndpoints(_, _, _)
ParseEndpoints(list, eps, i) ==
  IF i > Len(eps) THEN [list |-> list, ret |-> 0]
  ELSE IF eps[i].remote = NullFw
       THEN [list |-> NotifierCleanup(list), ret |-> -EINVAL]
       ELSE IF AlreadyProcessed(list, eps[i].remote)
            THEN ParseEndpoints(list, eps, i + 1)
            ELSE LET a == AddFwnodeSubdev(list, eps[i].remote)
                 IN  IF a.err < 0
                     THEN [list |-> NotifierCleanup(a.list), ret |-> a.err]
                     ELSE ParseEndpoints(a.list, eps, i + 1)

xvip_graph_parse_one(t, list, fwnode) == ParseEndpoints(list, t[fwnode], 1)

\* list_for_each_entry of xvip_graph_parse from position i on; entries
\* appended while walking are met in turn
RECURSIVE ParseWalk(_, _, _, _)
ParseWalk(t, list, i, ret) ==
  IF i > Len(list) THEN [list |-> list, ret |-> ret]
  ELSE LET r == xvip_graph_parse_one(t, list, list[i].fwnode)
       IN  IF r.ret < 0
           THEN [list |-> NotifierCleanup(r.list), ret |-> r.ret]
           ELSE ParseWalk(t, r.list, i + 1, r.ret)

\* parsing the composite node failed: if (ret < 0) return 0;
RootParseFailed(r) == [list |-> r.list, ret |-> 0]

xvip_graph_parse(t) ==
  LET r == xvip_graph_parse_one(t, <<>>, Root)
  IN  IF r.ret < 0 THEN RootParseFailed(r) ELSE ParseWalk(t, r.list, 1, r.ret)

\* xvip_graph_cleanup
xvip_graph_cleanup(list) == NotifierCleanup(list)

\* xvip_graph_init; reg_ret is what v4l2_async_notifier_register gives
xvip_graph_init(t, reg_ret) ==
  LET p == xvip_graph_parse(t)
  IN  IF p.ret < 0
      THEN [list |-> xvip_graph_cleanup(p.list), ret |-> p.ret,
            report |-> "graph parsing failed"]
      ELSE IF p.list = <<>>
           THEN [list |-> p.list, ret |-> p.ret,
                 report |-> "no subdev found in graph"]
           ELSE IF reg_ret < 0
                THEN [list |-> xvip_graph_cleanup(p.list), ret |-> reg_ret,
                      report |-> "notifier registration failed"]
                ELSE [list |-> p.list, ret |-> 0, report |-> "none"]

\* results of the kernel calls media_ctl_probe makes
SetupRets == {0, -ENOMEM}

\* media_ctl_probe: the device structure is allocated, the V4L2 device
\* set up, the graph initialised
media_ctl_probe ==
  /\ ~probed
  /\ probed' = TRUE
  /\ \E alloc_ok \in BOOLEAN, v4l2_ret \in SetupRets, reg_ret \in SetupRets :
        IF ~alloc_ok
        THEN /\ probe_ret' = -ENOMEM
             /\ UNCHANGED <<asd_list, report>>
        ELSE IF v4l2_ret < 0
             THEN /\ probe_ret' = v4l2_ret
                  /\ report' = "V4L2 device registration failed"
                  /\ UNCHANGED asd_list
             ELSE LET g == xvip_graph_init(topo, reg_ret)
                  IN  /\ asd_list' = g.list
                      /\ probe_ret' = g.ret
                      /\ report' = g.report
  /\ UNCHANGED <<actVars, topo, inst, walk, bindVars>>

(* xvip_graph_parse one xvip_graph_parse_one call at a time *)
walkRest == <<actVars, topo, probed, probe_ret, report, inst, bindVars>>

\* ret = xvip_graph_parse_one(xdev, of_fwnode_handle(xdev->dev->of_node));
\* if (ret < 0) return 0;
WalkRoot ==
  /\ walk.pc = "start"
  /\ LET r == xvip_graph_parse_one(topo, asd_list, Root)
     IN  /\ asd_list' = r.list
         /\ walk' = IF r.ret < 0
                    THEN [walk EXCEPT !.pc = "done", !.ret = RootParseFailed(r).ret,
                                      !.steps = @ + 1]
                    ELSE [walk EXCEPT !.pc = "walk", !.pos = 1, !.ret = r.ret,
                                      !.steps = @ + 1]
  /\ UNCHANGED walkRest

\* one iteration of list_for_each_entry: the entity at pos is parsed; a
\* failure cleans the notifier and breaks
WalkEntity ==
  /\ walk.pc = "walk"
  /\ walk.pos <= Len(asd_list)
  /\ LET r == xvip_graph_parse_one(topo, asd_list, asd_list[walk.pos].fwnode)
     IN  IF r.ret < 0
         THEN /\ asd_list' = NotifierCleanup(r.list)
              /\ walk' = [walk EXCEPT !.pc = "done", !.ret = r.ret, !.steps = @ + 1]
         ELSE /\ asd_list' = r.list
              /\ walk' = [walk EXCEPT !.pos = @ + 1, !.ret = r.ret, !.steps = @ + 1]
  /\ UNCHANGED walkRest

\* list_for_each_entry is back at the list head: return ret
WalkEnd ==
  /\ walk.pc = "walk"
  /\ walk.pos > Len(asd_list)
  /\ walk' = [walk EXCEPT !.pc = "done", !.steps = @ + 1]
  /\ UNCHANGED <<asd_list, walkRest>>

\* endpoints as discovery reads them: only the remote port parent matters
ParseAlphabet ==
  {[owner |-> n, ep |-> Endpoint(r, 0, 0, TRUE)] :
      n \in Fwnodes, r \in {NullFw} \cup Fwnodes}

InitParse ==
  /\ \E flat \in FlatSeqs(ParseAlphabet, MaxEndpoints, 0) : topo = TopoOf(flat)
  /\ asd_list = <<>>
  /\ probed = FALSE
  /\ probe_ret = 0
  /\ report = "none"
  /\ inst = NoInst
  /\ walk = NoWalk
  /\ is_streaming = FALSE
  /\ power = [i \in 1..NumPeers |-> FALSE]
  /\ stream = [i \in 1..NumPeers |-> FALSE]
  /\ call = NoCall
  /\ ss_pos = 0
  /\ ss_fail = 0
  /\ ss_err = 0
  /\ store_ret = 0
  /\ conc = NoConc(NumPeers)
  /\ InitBindVars

NextParse == media_ctl_probe

SpecParse == InitParse /\ [][NextParse]_vars

(* The walk of xvip_graph_parse over the same descriptions *)
InitWalk == InitParse

NextWalk == WalkRoot \/ WalkEntity \/ WalkEnd

SpecWalk == InitWalk /\ [][NextWalk]_vars

(* ------------------------------------------------------------------ *)
(* Properties of discovery                                              *)
(* ------------------------------------------------------------------ *)
\* the nodes reached from S over endpoints that resolve
RECURSIVE Closure(_, _)
Closure(t, S) ==
  LET T == S \cup ({t[n][i].remote : <<n, i>> \in
                      {<<m, j>> \in S \X (1..MaxEndpoints) : j <= Len(t[m])}}
                   \ {NullFw})
  IN  IF T = S THEN S ELSE Closure(t, T)

Reach(t) == Closure(t, {Root})
Peers(t) == Reach(t) \ {Root}

AllResolve(t) == \A n \in DOMAIN t : \A i \in 1..Len(t[n]) : t[n][i].remote # NullFw
Registered == {asd_list[i].fwnode : i \in 1..Len(asd_list)}
\* the endpoints of the description that point to fwnode f
RefsTo(t, f) == {<<n, i>> \in (DOMAIN t) \X (1..MaxEndpoints) :
                    i <= Len(t[n]) /\ t[n][i].remote = f}

\* the probe got as far as building the graph and the notifier took it
GraphBuilt == probed /\ probe_ret = 0

MeetsUnresolved(t) ==
  \E n \in Reach(t) : \E i \in 1..Len(t[n]) : t[n][i].remote = NullFw

\* C9: an endpoint that does not resolve makes the probe fail with an error;
\* the "no subdev found" outcome, which is no error, is left to graphs in
\* which discovery meets no such endpoint.
C9_ResolutionErrorReported ==
  probed =>
     /\ MeetsUnresolved(topo) => probe_ret < 0
     /\ (report = "no subdev found in graph") => ~MeetsUnresolved(topo)

(* ------------------------------------------------------------------ *)
(* Graph Management: binding                                            *)
(* ------------------------------------------------------------------ *)
\* a subdev was bound to the entity before (line 364 ignoring the test)
AlreadyBoundIgnored(entity) == FALSE

\* if (entity->subdev)
AlreadyBound(entity) == entity.subdev # NoSubdev

\* entity->entity = &subdev->entity; entity->subdev = subdev;
BindEntity(entity, sd) ==
  [entity EXCEPT !.entity = EntityOf(sd), !.subdev = sd]

\* the match that takes any entity for the subdev's
MatchesAny(entity, sd) == TRUE

\* entity->asd.match.fwnode != subdev->fwnode: continue
MatchesSubdev(entity, sd) == entity.fwnode = sd.fwnode

\* xvip_graph_notify_bound: the first entity whose fwnode is the subdev's
xvip_graph_notify_bound(list, sd) ==
  LET hit == {i \in 1..Len(list) : MatchesSubdev(list[i], sd)}
  IN  IF hit = {}
      THEN [list |-> list, ret |-> -EINVAL]
      ELSE LET k == CHOOSE i \in hit : \A j \in hit : i <= j
           IN  IF AlreadyBound(list[k])
               THEN [list |-> list, ret |-> -EINVAL]
               ELSE [list |-> [list EXCEPT ![k] = BindEntity(list[k], sd)],
                     ret  |-> 0]

\* the subdevs that can arrive: one of either kind at every node of the
\* description and at one node the description does not hold
Subdevs == {Subdev(f, nm) : f \in 1..(NumPeers + 1), nm \in SubdevNames}

\* one call of xvip_graph_notify_bound for the subdev; the call is added to
\* the record of arrivals when record is set
BoundCall(sd, record) ==
  /\ probed /\ probe_ret = 0 /\ ~oopsed
  /\ LET r == xvip_graph_notify_bound(asd_list, sd)
     IN  /\ asd_list' = r.list
         /\ bind' = [sd |-> sd, ret |-> r.ret,
                     dup |-> \E i \in 1..Len(asd_list) :
                                /\ asd_list[i].fwnode = sd.fwnode
                                /\ asd_list[i].subdev # NoSubdev,
                     order |-> IF record
                               THEN Append(bind.order, [sd |-> sd, ret |-> r.ret])
                               ELSE bind.order]
  /\ UNCHANGED <<actVars, probeVars, links, indication, comp,
                 subdev_nodes, media_registered, oopsed, built>>

\* the notifier's bound callback for an arriving subdev
NotifyBound(sd) == BoundCall(sd, FALSE)

\* the bound callback as the async framework makes it when every subdev
\* registers once: for a subdev at a node of the list that has not arrived
FirstArrival(sd) ==
  /\ \E i \in 1..Len(asd_list) : asd_list[i].fwnode = sd.fwnode
  /\ \A k \in 1..Len(bind.order) : bind.order[k].sd.fwnode # sd.fwnode
  /\ BoundCall(sd, TRUE)

(* ------------------------------------------------------------------ *)
(* Graph Management: link creation                                      *)
(* ------------------------------------------------------------------ *)
\* the pads of a subdev's media entity: a sensor has one source pad, any
\* other subdev a sink pad and a source pad
PadsOfSubdev(sd) ==
  IF sd.name = "IMX274" THEN <<"source">> ELSE <<"sink", "source">>

\* what a read through a NULL media_entity pointer can give: the kernel
\* stops the thread (oops), or the read goes through and finds some pads
NullReads ==
  {[oops |-> TRUE, pads |-> <<>>]} \cup
  {[oops |-> FALSE, pads |-> p] : p \in {<<>>, <<"source">>, <<"sink", "source">>}}

\* entity->pads and entity->num_pads as the code reads them
PadsOf(ent, ub) == IF ent = NoEntity THEN ub.pads ELSE PadsOfSubdev(ent.owner)

\* a link made by media_create_pad_link, MEDIA_LNK_FL_ENABLED
Link(local, lp, remote, rp) ==
  [source |-> [ent |-> local.owner, pad |-> lp],
   sink   |-> [ent |-> remote.owner, pad |-> rp],
   flags  |-> "ENABLED"]

\* the name given to an entity called "IMX274"
RenameIMX274(ind) == IF ind = 0 THEN "IMX274_0" ELSE "IMX274_1"

\* the test of the pad direction that takes no pad for a sink
IsSinkPadNever(pads, port) == FALSE

\* local_pad->flags & MEDIA_PAD_FL_SINK, local_pad = &local->pads[port]
IsSinkPad(pads, port) == pads[port + 1] = "sink"

\* the while (1) loop of xvip_graph_build_one, from endpoint i on.  st holds
\* ret, the links, and the number of media_create_pad_link calls made so
\* far in this completion; the fail_at-th such call fails
RECURSIVE BuildEndpoints(_, _, _, _, _, _, _)
BuildEndpoints(list, local, eps, i, st, ub, fail_at) ==
  IF i > Len(eps) THEN st
  ELSE
    LET ep == eps[i] IN
    IF ~ep.link_ok
    THEN BuildEndpoints(list, local, eps, i + 1, [st EXCEPT !.ret = -ENOLINK], ub, fail_at)
    ELSE IF ep.local_port >= Len(PadsOf(local, ub))
    THEN [st EXCEPT !.ret = -EINVAL]
    ELSE IF IsSinkPad(PadsOf(local, ub), ep.local_port)
    THEN BuildEndpoints(list, local, eps, i + 1, [st EXCEPT !.ret = 0], ub, fail_at)
    ELSE IF ep.remote = Root
    THEN BuildEndpoints(list, local, eps, i + 1, [st EXCEPT !.ret = 0], ub, fail_at)
    ELSE
      LET k == xvip_graph_find_entity(list, ep.remote) IN
      IF k = 0
      THEN [st EXCEPT !.ret = -ENODEV]
      ELSE
        LET remote == list[k].entity IN
        IF remote = NoEntity /\ ub.oops
        THEN [st EXCEPT !.oops = TRUE]
        ELSE IF ep.remote_port >= Len(PadsOf(remote, ub))
        THEN [st EXCEPT !.ret = -EINVAL]
        ELSE IF st.created + 1 = fail_at
        THEN [st EXCEPT !.ret = -ENOMEM, !.created = @ + 1]
        ELSE BuildEndpoints(list, local, eps, i + 1,
                 [st EXCEPT !.ret = 0, !.created = @ + 1,
                            !.links = Append(@, Link(local, ep.local_port,
                                                     remote, ep.remote_port))],
                 ub, fail_at)

\* xvip_graph_build_one for the entity at position n: the entity named
\* "IMX274" is renamed and counted, then the endpoints are gone through
xvip_graph_build_one(t, list, n, st, ub, fail_at) ==
  LET local == list[n].entity IN
  IF local = NoEntity /\ ub.oops
  THEN [st EXCEPT !.oops = TRUE]
  ELSE
    LET imx    == local # NoEntity /\ local.name = "IMX274"
        named  == IF imx THEN [local EXCEPT !.name = RenameIMX274(st.indication)]
                  ELSE local
        st1    == [st EXCEPT !.ret = 0,
                             !.list = [@ EXCEPT ![n].entity = named],
                             !.indication = IF imx THEN @ + 1 ELSE @]
    IN  BuildEndpoints(st1.list, named, t[list[n].fwnode], 1, st1, ub, fail_at)

\* one call the completion made, with its result
Step(op, n, ret) == [op |-> op, n |-> n, ret |-> ret]

\* the test of the build result that lets the loop go on whatever it is
BuildFailedIgnored(r) == r.oops

\* if (ret < 0) return ret; a thread stopped by an oops goes no further
BuildFailed(r) == r.oops \/ r.ret < 0

\* list_for_each_entry of xvip_graph_notify_complete, from position n on
RECURSIVE BuildAll(_, _, _, _, _)
BuildAll(t, n, st, ub, fail_at) ==
  IF n > Len(st.list) THEN st
  ELSE LET b == xvip_graph_build_one(t, st.list, n, st, ub, fail_at)
           r == [b EXCEPT !.steps = Append(@, Step("build_one", n, b.ret)),
                          !.aborted = BuildFailed(b)]
       IN  IF r.aborted THEN r
           ELSE BuildAll(t, n + 1, r, ub, fail_at)

\* xvip_graph_notify_complete: links for every entity, then the subdev
\* nodes, then the media device; nodes_ret is ignored, media_ret returned
xvip_graph_notify_complete(t, list, ind, lks, ub, fail_at, nodes_ret, media_ret) ==
  LET st0 == [ret |-> 0, oops |-> FALSE, list |-> list, indication |-> ind,
              links |-> lks, created |-> 0, steps |-> <<>>, aborted |-> FALSE]
      b   == BuildAll(t, 1, st0, ub, fail_at)
  IN  IF b.aborted
      THEN [b EXCEPT !.created = 0] @@ [nodes |-> FALSE, media |-> FALSE]
      ELSE [b EXCEPT !.ret = media_ret, !.created = 0,
                     !.steps = @ \o <<Step("register_subdev_nodes", 0, nodes_ret),
                                      Step("media_device_register", 0, media_ret)>>]
           @@ [nodes |-> TRUE, media |-> media_ret = 0]

\* the position of the first entity without a subdev, 0 when all are bound
FirstUnbound(list) ==
  LET u == {i \in 1..Len(list) : list[i].subdev = NoSubdev}
  IN  IF u = {} THEN 0 ELSE CHOOSE i \in u : \A j \in u : i <= j

\* no NULL pointer is read when every entity has its subdev: one outcome
\* stands for all
NullReadsOf(list) ==
  IF FirstUnbound(list) = 0 THEN {[oops |-> TRUE, pads |-> <<>>]} ELSE NullReads

\* the notifier's complete callback; the signal is delivered once
NotifyComplete ==
  /\ probed /\ probe_ret = 0 /\ ~oopsed
  /\ ~comp.called
  /\ \E ub \in NullReadsOf(asd_list), fail_at \in 0..MaxBindEps,
        nodes_ret \in SetupRets, media_ret \in SetupRets :
        LET r == xvip_graph_notify_complete(topo, asd_list, indication, links,
                                            ub, fail_at, nodes_ret, media_ret)
        IN  /\ asd_list' = r.list
            /\ indication' = r.indication
            /\ links' = r.links
            /\ oopsed' = r.oops
            /\ subdev_nodes' = (subdev_nodes \/ r.nodes)
            /\ media_registered' = (media_registered \/ r.media)
            /\ comp' = [called |-> TRUE, ret |-> r.ret,
                        first_unbound |-> FirstUnbound(asd_list),
                        links_before |-> Len(links),
                        steps |-> r.steps]
  /\ UNCHANGED <<actVars, probeVars, bind, built>>

\* endpoints as link creation reads them: every endpoint resolves; the
\* local port is 0 or 1, the remote port 0
LinkAlphabet ==
  {[owner |-> Root, ep |-> Endpoint(r, 0, 0, TRUE)] : r \in Fwnodes} \cup
  {[owner |-> n, ep |-> Endpoint(r, lp, 0, TRUE)] :
      n \in 1..NumPeers, r \in Fwnodes, lp \in {0, 1}}

\* endpoints as binding meets them: every endpoint resolves
BindAlphabet ==
  {[owner |-> n, ep |-> Endpoint(r, 0, 0, TRUE)] : n \in Fwnodes, r \in Fwnodes}

\* the device after a probe that found subdevs in a graph drawn from flats
InitProbed(flats) ==
  /\ \E flat \in flats :
        /\ topo = TopoOf(flat)
        /\ asd_list = xvip_graph_init(TopoOf(flat), 0).list
        /\ asd_list # <<>>
  /\ probed = TRUE
  /\ probe_ret = 0
  /\ report = "none"
  /\ inst = NoInst
  /\ walk = NoWalk
  /\ is_streaming = FALSE
  /\ power = [i \in 1..NumPeers |-> FALSE]
  /\ stream = [i \in 1..NumPeers |-> FALSE]
  /\ call = NoCall
  /\ ss_pos = 0
  /\ ss_fail = 0
  /\ ss_err = 0
  /\ store_ret = 0
  /\ conc = NoConc(NumPeers)
  /\ InitBindVars

\* the registry with a subdev bound to every entity, named as nm says
BoundAs(list, nm) ==
  [i \in 1..Len(list) |->
     BindEntity(list[i], Subdev(list[i].fwnode, nm[list[i].fwnode]))]

\* the device after a probe and the arrival of all subdevs: the composite
\* node has an endpoint to every peer, the peers' endpoints come from flats
InitAllBound(flats) ==
  /\ \E flat \in flats, nm \in [1..NumPeers -> SubdevNames] :
        LET t == [TopoOf(flat) EXCEPT
                    ![Root] = [i \in 1..NumPeers |-> Endpoint(i, 0, 0, TRUE)]]
        IN  /\ topo = t
            /\ asd_list = BoundAs(xvip_graph_init(t, 0).list, nm)
  /\ probed = TRUE
  /\ probe_ret = 0
  /\ report = "none"
  /\ inst = NoInst
  /\ walk = NoWalk
  /\ is_streaming = FALSE
  /\ power = [i \in 1..NumPeers |-> FALSE]
  /\ stream = [i \in 1..NumPeers |-> FALSE]
  /\ call = NoCall
  /\ ss_pos = 0
  /\ ss_fail = 0
  /\ ss_err = 0
  /\ store_ret = 0
  /\ conc = NoConc(NumPeers)
  /\ InitBindVars

(* The completion signal after all subdevs arrived *)
InitLink == InitAllBound(FlatSeqs(LinkAlphabet, MaxLinkEps, 1))

NextLink == NotifyComplete

SpecLink == InitLink /\ [][NextLink]_vars

(* xvip_graph_build_one on one entity whose endpoints hold one that
   v4l2_fwnode_parse_link refuses *)
\* the endpoints of the entity: some parse, some do not
SkipEndpoints ==
  {Endpoint(r, lp, 0, ok) : r \in Fwnodes, lp \in {0, 1}, ok \in BOOLEAN}

RECURSIVE SeqsUpTo(_, _)
SeqsUpTo(S, k) ==
  IF k = 0 THEN {<<>>}
  ELSE {<<>>} \cup {<<e>> \o r : e \in S, r \in SeqsUpTo(S, k - 1)}

\* the sequence without its element at position at
RemoveAt(seq, at) ==
  [i \in 1..(Len(seq) - 1) |-> IF i < at THEN seq[i] ELSE seq[i + 1]]

\* every entity bound; the first one has the endpoints drawn
InitSkip ==
  /\ \E eps \in SeqsUpTo(SkipEndpoints, MaxSkipEps),
        nm \in [1..NumPeers -> SubdevNames] :
        /\ \E i \in 1..Len(eps) : ~eps[i].link_ok
        /\ topo = [f \in Fwnodes |-> IF f = 1 THEN eps ELSE <<>>]
        /\ asd_list = [i \in 1..NumPeers |-> BoundEntity(i, nm[i])]
  /\ probed = TRUE
  /\ probe_ret = 0
  /\ report = "none"
  /\ inst = NoInst
  /\ walk = NoWalk
  /\ is_streaming = FALSE
  /\ power = [i \in 1..NumPeers |-> FALSE]
  /\ stream = [i \in 1..NumPeers |-> FALSE]
  /\ call = NoCall
  /\ ss_pos = 0
  /\ ss_fail = 0
  /\ ss_err = 0
  /\ store_ret = 0
  /\ conc = NoConc(NumPeers)
  /\ InitBindVars

\* xvip_graph_build_one on the first entity, and what the same call gives
\* when the endpoint at position at, one that does not parse, is left out
BuildOneWithout(at) ==
  /\ ~built.called
  /\ at \in 1..Len(topo[1])
  /\ ~topo[1][at].link_ok
  /\ \E fail_at \in 0..MaxSkipEps :
        LET st0  == [ret |-> 0, oops |-> FALSE, list |-> asd_list,
                     indication |-> indication, links |-> links, created |-> 0,
                     steps |-> <<>>, aborted |-> FALSE]
            ub   == CHOOSE u \in NullReadsOf(asd_list) : TRUE
            full == xvip_graph_build_one(topo, asd_list, 1, st0, ub, fail_at)
            cut  == xvip_graph_build_one([topo EXCEPT ![1] = RemoveAt(@, at)],
                                         asd_list, 1, st0, ub, fail_at)
        IN  /\ asd_list' = full.list
            /\ links' = full.links
            /\ indication' = full.indication
            /\ built' = [called |-> TRUE, at |-> at,
                         full |-> [ret |-> full.ret, links |-> full.links],
                         cut  |-> [ret |-> cut.ret, links |-> cut.links]]
  /\ UNCHANGED <<actVars, probeVars, bind, comp, subdev_nodes,
                 media_registered, oopsed>>

NextSkip == \E at \in 1..MaxSkipEps : BuildOneWithout(at)

SpecSkip == InitSkip /\ [][NextSkip]_vars

(* Subdevs arriving in any order, any number of times *)
InitBind == InitProbed(FlatSeqs(BindAlphabet, MaxBindEps, 0))

NextBind == \E sd \in Subdevs : NotifyBound(sd)

SpecBind == InitBind /\ [][NextBind]_vars

(* One subdev arriving for every entity, in any order *)
InitArrive == InitProbed(FlatSeqs(BindAlphabet, MaxEndpoints, 0))

NextArrive == \E sd \in Subdevs : FirstArrival(sd)

SpecArrive == InitArrive /\ [][NextArrive]_vars

(* Subdevs arriving, and the completion signal at any moment *)
InitComplete == InitProbed(FlatSeqs(LinkAlphabet, MaxBindEps, 0))

NextComplete ==
  \/ \E sd \in Subdevs : NotifyBound(sd)
  \/ NotifyComplete

SpecComplete == InitComplete /\ [][NextComplete]_vars

(* ------------------------------------------------------------------ *)
(* Two platform devices matching "topic,mediactl"                        *)
(* ------------------------------------------------------------------ *)
\* the one peer node of each device, and the device's description: the
\* composite node has one endpoint, to the peer
DevPeer(d) == IF d = "A" THEN 1 ELSE 2
DevTopo(d) ==
  [f \in Fwnodes |-> IF f = Root THEN <<Endpoint(DevPeer(d), 0, 0, TRUE)>> ELSE <<>>]

instRest == <<asd_list, is_streaming, call, ss_pos, ss_fail, ss_err, store_ret,
              conc, topo, probed, probe_ret, report, walk, bind, links, comp,
              subdev_nodes, media_registered, oopsed, built>>

\* a call made while g_xdev is NULL stops with an oops; one made while
\* g_xdev points to the released structure of a failed probe stops with an
\* oops or goes through memory in which it finds no entity
StaleCall(d) ==
  \E o \in (IF inst.g_xdev = "NULL" THEN {TRUE} ELSE BOOLEAN) :
     inst' = [inst EXCEPT !.oops = o, !.last = d]

\* media_ctl_probe for device d: g_xdev is overwritten with the new
\* allocation, NULL when it fails; the devm allocation of a probe that
\* fails is released
ProbeDev(d) ==
  /\ ~inst.dev[d].probed
  /\ \E alloc_ok \in BOOLEAN, v4l2_ret \in SetupRets, reg_ret \in SetupRets :
        LET g == xvip_graph_init(DevTopo(d), reg_ret)
            done == [NoDev EXCEPT !.probed = TRUE]
            ok == alloc_ok /\ v4l2_ret = 0 /\ g.ret = 0
        IN  inst' = [inst EXCEPT
                       !.g_xdev = IF ~alloc_ok THEN "NULL"
                                  ELSE IF ok THEN d ELSE "freed",
                       !.last = d,
                       !.dev[d] = IF ok THEN [done EXCEPT !.ok = TRUE,
                                                          !.asd_list = g.list]
                                  ELSE done]
  /\ UNCHANGED <<power, stream, indication, instRest>>

\* the bound callback of device d's notifier: the list gone through is
\* g_xdev->notifier.asd_list
BoundAt(d, sd) ==
  /\ inst.dev[d].ok /\ ~inst.oops
  /\ sd.fwnode = DevPeer(d)
  /\ IF inst.g_xdev \notin Devs
     THEN StaleCall(d)
     ELSE LET r == xvip_graph_notify_bound(inst.dev[inst.g_xdev].asd_list, sd)
          IN  inst' = [inst EXCEPT !.dev[inst.g_xdev].asd_list = r.list,
                                   !.last = d]
  /\ UNCHANGED <<power, stream, indication, instRest>>

\* the complete callback of device d's notifier: links, subdev nodes and
\* media device are those of g_xdev
CompleteAt(d) ==
  /\ inst.dev[d].ok /\ ~inst.oops
  /\ IF inst.g_xdev \notin Devs
     THEN /\ StaleCall(d)
          /\ UNCHANGED indication
     ELSE LET x == inst.dev[inst.g_xdev] IN
          \E ub \in NullReadsOf(x.asd_list), fail_at \in 0..MaxBindEps,
             nodes_ret \in SetupRets, media_ret \in SetupRets :
             LET r == xvip_graph_notify_complete(DevTopo(inst.g_xdev), x.asd_list,
                                                 indication, x.links, ub, fail_at,
                                                 nodes_ret, media_ret)
             IN  /\ inst' = [inst EXCEPT
                               !.dev[inst.g_xdev] =
                                   [@ EXCEPT !.asd_list = r.list,
                                             !.links = r.links,
                                             !.media_registered = @ \/ r.media],
                               !.oops = r.oops,
                               !.last = d]
                 /\ indication' = r.indication
  /\ UNCHANGED <<power, stream, instRest>>

\* the ways xvip_start_stream can go over a list of bound entities
RECURSIVE StartedLists(_)
StartedLists(list) ==
  IF list = <<>> THEN {<<>>}
  ELSE {<<r>> \o rest : r \in Outcomes(Head(list), TRUE),
                         rest \in StartedLists(Tail(list))}

\* a write to the stream_start attribute of device d: xvip_start_stream
\* goes through g_xdev->notifier.asd_list and sets g_xdev->is_streaming
StartAt(d) ==
  /\ inst.dev[d].ok /\ ~inst.oops
  /\ IF inst.g_xdev \notin Devs
     THEN /\ StaleCall(d)
          /\ UNCHANGED <<power, stream>>
     ELSE IF FirstUnbound(inst.dev[inst.g_xdev].asd_list) # 0
     THEN /\ inst' = [inst EXCEPT !.oops = TRUE, !.last = d]
          /\ UNCHANGED <<power, stream>>
     ELSE LET list == inst.dev[inst.g_xdev].asd_list IN
          \E res \in StartedLists(list) :
             /\ inst' = [inst EXCEPT
                           !.dev[inst.g_xdev] =
                               [@ EXCEPT !.asd_list = [i \in 1..Len(list) |-> res[i].entity],
                                         !.is_streaming = TRUE],
                           !.last = d]
             /\ power' = [f \in DOMAIN power |->
                            LET at == xvip_graph_find_entity(list, f)
                            IN  IF at = 0 THEN power[f]
                                ELSE PowerAfter(power[f], res[at].cmds)]
             /\ stream' = [f \in DOMAIN stream |->
                             LET at == xvip_graph_find_entity(list, f)
                             IN  IF at = 0 THEN stream[f]
                                 ELSE StreamAfter(stream[f], res[at].cmds)]
  /\ UNCHANGED <<indication, instRest>>

\* nothing probed yet
InitInst ==
  /\ asd_list = <<>>
  /\ topo = [f \in Fwnodes |-> <<>>]
  /\ probed = FALSE
  /\ probe_ret = 0
  /\ report = "none"
  /\ inst = NoInst
  /\ walk = NoWalk
  /\ is_streaming = FALSE
  /\ power = [i \in 1..NumPeers |-> FALSE]
  /\ stream = [i \in 1..NumPeers |-> FALSE]
  /\ call = NoCall
  /\ ss_pos = 0
  /\ ss_fail = 0
  /\ ss_err = 0
  /\ store_ret = 0
  /\ conc = NoConc(NumPeers)
  /\ InitBindVars

NextInst ==
  \E d \in Devs :
     \/ ProbeDev(d)
     \/ \E nm \in SubdevNames : BoundAt(d, Subdev(DevPeer(d), nm))
     \/ CompleteAt(d)
     \/ StartAt(d)

SpecInst == InitInst /\ [][NextInst]_vars

(* ------------------------------------------------------------------ *)
(* Properties of binding and completion                                 *)
(* ------------------------------------------------------------------ *)
\* the entity at position i keeps the subdev and the media entity it has
KeepsBinding(i) ==
  /\ asd_list'[i].subdev = asd_list[i].subdev
  /\ asd_list'[i].entity.owner = asd_list[i].entity.owner

\* C7: a subdev arriving for an entity that is bound is refused with an
\* error and changes no binding; an entity once bound keeps its subdev and
\* its media entity.
C7_BindingExclusive ==
  [][ /\ Len(asd_list') = Len(asd_list)
      /\ \A i \in 1..Len(asd_list) :
            asd_list[i].subdev # NoSubdev => KeepsBinding(i)
      /\ bind'.dup => (bind'.ret < 0 /\ asd_list' = asd_list) ]_vars

\* another subdev arrived for an entity that holds one
C7_Witness ==
  /\ bind.dup
  /\ \E i \in 1..Len(asd_list) :
        /\ asd_list[i].fwnode = bind.sd.fwnode
        /\ asd_list[i].subdev # NoSubdev
        /\ asd_list[i].subdev # bind.sd

\* the links the last completion created
NewLinks == {links[j] : j \in (comp.links_before + 1)..Len(links)}

\* C10: a completion signalled while an entity is unbound fails with an
\* error and creates no link for that entity or an entity after it; the
\* media device is registered only when every entity was bound.
C10_CompleteNeedsAllBound ==
  /\ (comp.called /\ comp.first_unbound # 0) =>
        /\ ~oopsed
        /\ comp.ret < 0
        /\ \A l \in NewLinks :
              /\ l.source.ent # NoSubdev
              /\ xvip_graph_find_entity(asd_list, l.source.ent.fwnode) < comp.first_unbound
  /\ (comp.called /\ media_registered) => comp.first_unbound = 0

\* the calls of the last completion that are build_one, and the others
BuildSteps == {i \in 1..Len(comp.steps) : comp.steps[i].op = "build_one"}
NodesSteps == {i \in 1..Len(comp.steps) : comp.steps[i].op = "register_subdev_nodes"}
MediaSteps == {i \in 1..Len(comp.steps) : comp.steps[i].op = "media_device_register"}
BuildStepFailed == \E i \in BuildSteps : comp.steps[i].ret < 0

\* C11: a completion builds the links of the entities in list order, then
\* registers the subdev nodes, then the media device; when the build of an
\* entity fails neither registration is made, and a registered media device
\* means the build of every entity of the list returned success.
C11_CompletionOrder ==
  comp.called =>
     /\ \A i \in BuildSteps : i <= Len(asd_list) /\ comp.steps[i].n = i
     /\ \A i \in NodesSteps : i = Len(asd_list) + 1
     /\ \A i \in MediaSteps : i = Len(asd_list) + 2 /\ NodesSteps # {}
     /\ BuildStepFailed => (NodesSteps = {} /\ MediaSteps = {})
     /\ (BuildStepFailed \/ oopsed) => (~subdev_nodes /\ ~media_registered)
     /\ media_registered =>
           \A n \in 1..Len(asd_list) :
              n \in BuildSteps /\ comp.steps[n].ret >= 0

\* a completion over two bound entities in which the build of the first
\* failed: the second was not built and nothing was registered
C11_Witness ==
  /\ comp.called /\ comp.first_unbound = 0
  /\ Len(asd_list) = 2
  /\ Len(comp.steps) = 1
  /\ comp.steps[1].op = "build_one" /\ comp.steps[1].ret < 0
  /\ ~subdev_nodes /\ ~media_registered

\* the endpoints of the entities of the list: <<n, i>> is the i-th endpoint
\* of the entity at position n
ListEndpoints ==
  {<<n, i>> \in (1..Len(asd_list)) \X (1..MaxLinkEps) :
      i <= Len(topo[asd_list[n].fwnode])}
EpOf(q) == topo[asd_list[q[1]].fwnode][q[2]]
LocalPads(q) == PadsOfSubdev(asd_list[q[1]].subdev)
RemoteOf(q) == asd_list[xvip_graph_find_entity(asd_list, EpOf(q).remote)]
RemoteRegistered(q) ==
  EpOf(q).remote # Root /\ xvip_graph_find_entity(asd_list, EpOf(q).remote) # 0

\* every port an endpoint names is a pad of the entity it names
PortsInRange ==
  \A q \in ListEndpoints :
     /\ EpOf(q).local_port < Len(LocalPads(q))
     /\ RemoteRegistered(q) =>
           EpOf(q).remote_port < Len(PadsOfSubdev(RemoteOf(q).subdev))

\* the endpoints that are to give a link, and the link of each
LinkEndpoints ==
  {q \in ListEndpoints :
      /\ EpOf(q).local_port < Len(LocalPads(q))
      /\ LocalPads(q)[EpOf(q).local_port + 1] = "source"
      /\ RemoteRegistered(q)}
LinkFor(q) ==
  [source |-> [ent |-> asd_list[q[1]].subdev, pad |-> EpOf(q).local_port],
   sink   |-> [ent |-> RemoteOf(q).subdev, pad |-> EpOf(q).remote_port],
   flags  |-> "ENABLED"]
TimesCreated(l) == Cardinality({j \in 1..Len(links) : links[j] = l})
TimesDeclared(l) == Cardinality({q \in LinkEndpoints : LinkFor(q) = l})

\* every entity of the list was built and no build failed
AllBuilt == comp.called /\ MediaSteps # {}

\* C12: with every entity bound and every port in range, a build fails only
\* when media_create_pad_link does, and the links of a completion whose
\* builds all succeeded are one enabled link, local pad to remote pad, for
\* each endpoint with a source local pad and a registered remote other than
\* the root, and no other link.
C12_LinkSet ==
  (comp.called /\ comp.first_unbound = 0 /\ PortsInRange) =>
     /\ \A i \in BuildSteps : comp.steps[i].ret \in {0, -ENOMEM}
     /\ AllBuilt =>
           /\ Len(links) = Cardinality(LinkEndpoints)
           /\ \A l \in {links[j] : j \in 1..Len(links)} \cup
                         {LinkFor(q) : q \in LinkEndpoints} :
                 TimesCreated(l) = TimesDeclared(l)

\* a connection declared at both of its ends, source side and sink side,
\* and the one link made for it
C12_Witness ==
  /\ AllBuilt /\ comp.first_unbound = 0 /\ PortsInRange
  /\ Len(links) = 1
  /\ \E q \in LinkEndpoints, r \in ListEndpoints \ LinkEndpoints :
        /\ EpOf(r).remote = asd_list[q[1]].fwnode
        /\ EpOf(q).remote = asd_list[r[1]].fwnode
        /\ EpOf(r).local_port = EpOf(q).remote_port
        /\ EpOf(r).remote_port = EpOf(q).local_port
        /\ LocalPads(r)[EpOf(r).local_port + 1] = "sink"

\* C13: after a completion that built every entity, entities whose subdevs
\* were declared with the same name carry different names.
C13_NamesDistinct ==
  AllBuilt =>
     \A i, j \in 1..Len(asd_list) :
        (i # j /\ asd_list[i].subdev.name = asd_list[j].subdev.name) =>
           asd_list[i].entity.name # asd_list[j].entity.name

\* C14: while no command has failed, two whole-graph starts running at
\* the same time send each subdev at most one s_power(1) and one
\* s_stream(1), and neither finds an entity's flag set before the subdev
\* has its power and its stream.
C14_StartsSerialized ==
  ~conc.hard =>
     /\ \A f \in DOMAIN conc.pon : conc.pon[f] <= 1 /\ conc.son[f] <= 1
     /\ ~conc.early

\* C15: a probe, a bound or complete callback, or a write to stream_start
\* made for one device leaves the registry, the bindings, the names, the
\* flags and the links of the other device as they were.
C15_InstancesIndependent ==
  [][ \A d \in Devs : inst'.last # d => inst'.dev[d] = inst.dev[d] ]_vars

\* the start went: power-on accepted, then the frame interval refused
FrameIntervalRefused ==
  /\ Called /\ call.on /\ ~call.was
  /\ IsIMX274(CallEntity.subdev)
  /\ Len(call.cmds) >= 2
  /\ call.cmds[1].cmd = "power_on" /\ ~HardError(call.cmds[1].ret)
  /\ call.cmds[2].cmd = "frame_interval" /\ call.cmds[2].ret < 0

\* C16: when the frame-interval command fails after power-on, the entity is
\* idle, the call returns the frame-interval error, and neither a stream-on
\* nor a power-off is issued.
C16_FrameIntervalFailure ==
  FrameIntervalRefused =>
     /\ ~CallEntity.streaming
     /\ call.ret = call.cmds[2].ret
     /\ CmdsNamed({"stream_on", "power_off"}) = {}
     /\ Len(call.cmds) = 2

\* the frame interval was refused with a hard error; the subdev keeps the
\* power the call gave it
C16_Witness ==
  /\ FrameIntervalRefused
  /\ call.cmds[1].ret = 0
  /\ HardError(call.cmds[2].ret)
  /\ power[CallEntity.fwnode] /\ ~stream[CallEntity.fwnode]

\* the walk has a step to take
WalkCanStep == ENABLED NextWalk

\* C17: xvip_graph_parse goes on until it is done and is done within one
\* step for the composite node, one for each peer and one for the end of
\* the list; the list never holds a node twice, and when the walk is done
\* every endpoint of a node of the list leads to the composite node or to
\* a node of the list.  The outcome is that of xvip_graph_parse.
C17_DiscoveryTerminates ==
  /\ walk.pc # "done" => WalkCanStep
  /\ walk.steps <= NumPeers + 2
  /\ walk.pc = "walk" => walk.pos <= Len(asd_list) + 1
  /\ Cardinality(Registered) = Len(asd_list)
  /\ walk.pc = "done" =>
        /\ \A n \in Registered : \A i \in 1..Len(topo[n]) :
              topo[n][i].remote \in {Root} \cup Registered
        /\ asd_list = xvip_graph_parse(topo).list
        /\ walk.ret = xvip_graph_parse(topo).ret

\* a finished walk over a graph with a cycle: two peers, the first named
\* by several endpoints, the second pointing back to the first or the root
C17_Witness ==
  /\ walk.pc = "done" /\ walk.ret = 0
  /\ Len(asd_list) = 2
  /\ Cardinality(RefsTo(topo, asd_list[1].fwnode)) >= 2
  /\ \E i \in 1..Len(topo[asd_list[2].fwnode]) :
        topo[asd_list[2].fwnode][i].remote \in {Root, asd_list[1].fwnode}

\* the subdevs that arrived, and the one that arrived for a node
Arrived == {bind.order[k].sd : k \in 1..Len(bind.order)}
ArrivedAt(fw) == CHOOSE sd \in Arrived : sd.fwnode = fw

\* the list the arrived subdevs determine, whatever their order
BoundByIdentity ==
  [i \in 1..Len(asd_list) |->
     IF \E sd \in Arrived : sd.fwnode = asd_list[i].fwnode
     THEN BindEntity(NewEntity(asd_list[i].fwnode), ArrivedAt(asd_list[i].fwnode))
     ELSE NewEntity(asd_list[i].fwnode)]

\* C18: when one subdev arrives for each entity, in any order, every bound
\* call returns 0 and each entity holds the subdev of its own node: the
\* list is the one the set of arrived subdevs determines.
C18_OrderIndependent ==
  /\ \A k \in 1..Len(bind.order) : bind.order[k].ret = 0
  /\ asd_list = BoundByIdentity

\* all subdevs of a list of two arrived, the one of the second entity first
C18_Witness ==
  /\ Len(asd_list) = 2
  /\ Len(bind.order) = 2
  /\ bind.order[1].sd.fwnode = asd_list[2].fwnode
  /\ bind.order[2].sd.fwnode = asd_list[1].fwnode
  /\ \A i \in 1..2 : asd_list[i].subdev # NoSubdev

\* C19: while no whole-graph start is running, the device flag is set only
\* if every bound entity is streaming.
C19_DeviceFlagAgrees ==
  (ss_pos = 0 /\ is_streaming) =>
     \A n \in 1..Len(asd_list) :
        asd_list[n].subdev # NoSubdev => asd_list[n].streaming

\* C20: an endpoint that v4l2_fwnode_parse_link refuses is passed over:
\* xvip_graph_build_one creates the links and returns the value it creates
\* and returns for the endpoints without that one, wherever it stands.
C20_UnparsableSkipped ==
  built.called =>
     /\ built.full.links = built.cut.links
     /\ built.full.ret = built.cut.ret

====
